---- MODULE Spec2Model ----
(***************************************************************************)
(* Model of dozer-tracing/src/telemetry.rs (telemetry pipeline lifecycle,  *)
(* filter resolution, layers, sampler) and of                              *)
(* dozer-admin/src/db/connection.rs (ConnectionInfo persistence).          *)
(*                                                                         *)
(* Calls into tracing, tracing-subscriber, tracing-appender, opentelemetry *)
(* and diesel are modelled at their call sites by the effect the call has  *)
(* on process state.                                                       *)
(***************************************************************************)
EXTENDS Integers, Sequences, FiniteSets, TLC

(***************************************************************************)
(* Bounds of the model.                                                    *)
(***************************************************************************)
\* number of pipelines (create_subscriber calls) in one run
MaxBuilds == 2

\* threads of the process that call into telemetry.rs
Threads == {"t1", "t2"}

\* Option<TelemetryConfig> as create_subscriber matches on it (lines 67-82):
\* "absent" is None, "no_trace" is Some with trace None, "dozer" is
\* Some(TelemetryTraceConfig::Dozer), "jaeger" is Some(TelemetryTraceConfig::Jaeger)
TelemetryConfigs == {"absent", "no_trace", "dozer", "jaeger"}

\* what a unit of work handed to init_telemetry_closure can do when it ends:
\* return a value or panic with a payload
WorkOutcomes == { [kind |-> "return", val |-> 1], [kind |-> "return", val |-> 2],
                  [kind |-> "panic", val |-> 1] }

NoResult == [kind |-> "none", val |-> 0]

Pids == 1..MaxBuilds

VARIABLES
    \* ---- process-global state touched by telemetry.rs
    global_default,   \* tracing's global default dispatcher: 0 or a pipeline id
    tracer_provider,  \* opentelemetry's global tracer provider: 0 (no-op) or the pipeline that registered it
    propagator,       \* opentelemetry's global text-map propagator: 0 or the pipeline that registered it
    error_handler,    \* opentelemetry's global error handler is set
    worker,           \* pipeline id -> "none" | "running" | "stopped": the file-writer worker thread
    guard,            \* pipeline id -> "none" | "builder" | "caller" | "dropped": who holds the WorkerGuard
    released,         \* pipeline id -> number of times the WorkerGuard was dropped
    mode,             \* pipeline id -> "none" | "global" | "scoped": entry point that built it
    next_id,          \* next pipeline id
    \* ---- per thread
    pc,               \* position of the thread inside init_telemetry / init_telemetry_closure
    cfg,              \* the telemetry_config argument of the running call
    pid,              \* the pipeline the running (or last) call builds
    thread_default,   \* tracing's thread-local default dispatcher: 0 or a pipeline id
    saved,            \* the prior thread-local default kept by with_default's DefaultGuard
    work_result,      \* what the closure did when it ended
    outcome,          \* how the last call ended: "none" | "ok" | "panic_build" | "panic_init" | "panic_work"
    ret,              \* what the last call gave its caller
    \* ---- observations
    prior_dest,       \* destination of the thread's events when with_default was entered
    prior_global,     \* global_default when with_default was entered
    last_event,       \* the last event the thread emitted: where it was emitted and where it went
    installs_ok,      \* number of init_telemetry calls that returned a guard
    \* ---- create_subscriber's filters and layers (FilterSpec)
    env_rust_log,     \* the RUST_LOG environment variable: Unset or a string
    env_trace_filter, \* the DOZER_TRACE_FILTER environment variable: Unset or a string
    f_cfg,            \* the telemetry_config argument
    f_pc,             \* "start" | "built" | "panicked"
    fmt_filter,       \* the console layer's EnvFilter (its directives), NoFilter before it is built
    log_writer_filter,\* the file layer's EnvFilter
    trace_filter,     \* the trace layer's EnvFilter, NoFilter when no telemetry_config is given
    f_event,          \* the last event emitted through the subscriber
    f_delivered,      \* the layers that event reached
    \* ---- get_dozer_tracer's sampler (SamplerSpec)
    sample_percent,   \* config.sample_percent
    s_pc,             \* "start" | "built" | "error"
    sampler,          \* the ratio given to Sampler::TraceIdRatioBased, as [num, den]; NoSampler before
    s_decision,       \* the last sampling decision: the trace id, the parent's state, the outcome
    \* ---- ConnectionInfo persistence, db/connection.rs (DbSpec)
    connections,      \* the connections table: id -> row, NoRow where there is none
    self,             \* the ConnectionInfo the last save / upsert was called on, as the call left it
    d_op,             \* "none" | "save" | "upsert": the last call
    d_res,            \* its result: Ok or the error
    d_in,             \* its inputs: the id self had, the generated uuid, whether pool.get() and execute() succeeded
    d_get             \* the result of get_by_id on self.id after the call

lifeVars == << global_default, tracer_provider, propagator, error_handler, worker, guard,
               released, mode, next_id, pc, cfg, pid, thread_default, saved, work_result,
               outcome, ret, prior_dest, prior_global, last_event, installs_ok >>

filterVars == << env_rust_log, env_trace_filter, f_cfg, f_pc, fmt_filter, log_writer_filter,
                 trace_filter, f_event, f_delivered >>

samplerVars == << sample_percent, s_pc, sampler, s_decision >>

dbVars == << connections, self, d_op, d_res, d_in, d_get >>

\* what the lifecycle actions leave alone
notLifeVars == << filterVars, samplerVars, dbVars >>

vars == << lifeVars, filterVars, samplerVars, dbVars >>

NoEvent == [during |-> 0, dest |-> 0, gd |-> 0, seen |-> FALSE]

\* tracing::dispatcher::get_default: the thread-local default when one is set,
\* else the global default (0: NoSubscriber)
Dispatch(t) == IF thread_default[t] # 0 THEN thread_default[t] ELSE global_default

LifeInit ==
    /\ global_default = 0
    /\ tracer_provider = 0
    /\ propagator = 0
    /\ error_handler = FALSE
    /\ worker = [p \in Pids |-> "none"]
    /\ guard = [p \in Pids |-> "none"]
    /\ released = [p \in Pids |-> 0]
    /\ mode = [p \in Pids |-> "none"]
    /\ next_id = 1
    /\ pc = [t \in Threads |-> "idle"]
    /\ cfg = [t \in Threads |-> "absent"]
    /\ pid = [t \in Threads |-> 0]
    /\ thread_default = [t \in Threads |-> 0]
    /\ saved = [t \in Threads |-> 0]
    /\ work_result = [t \in Threads |-> NoResult]
    /\ outcome = [t \in Threads |-> "none"]
    /\ ret = [t \in Threads |-> NoResult]
    /\ prior_dest = [t \in Threads |-> 0]
    /\ prior_global = [t \in Threads |-> 0]
    /\ last_event = [t \in Threads |-> NoEvent]
    /\ installs_ok = 0

\* a call starts: fresh pipeline id, per-call observations reset
BeginCall(t, c, m) ==
    /\ pc[t] = "idle"
    /\ next_id <= MaxBuilds
    /\ pid' = [pid EXCEPT ![t] = next_id]
    /\ mode' = [mode EXCEPT ![next_id] = m]
    /\ next_id' = next_id + 1
    /\ cfg' = [cfg EXCEPT ![t] = c]
    /\ pc' = [pc EXCEPT ![t] = "layers"]
    /\ outcome' = [outcome EXCEPT ![t] = "none"]
    /\ ret' = [ret EXCEPT ![t] = NoResult]
    /\ work_result' = [work_result EXCEPT ![t] = NoResult]
    /\ last_event' = [last_event EXCEPT ![t] = NoEvent]
    /\ UNCHANGED << prior_dest, prior_global >>

\* init_telemetry, lines 23-30: set_error_handler(..).unwrap(), then create_subscriber
init_telemetry(t, c) ==
    /\ BeginCall(t, c, "global")
    /\ error_handler' = TRUE
    /\ UNCHANGED << global_default, tracer_provider, propagator, worker, guard, released,
                    thread_default, saved, installs_ok >>
    /\ UNCHANGED notLifeVars

\* init_telemetry_closure, line 47: create_subscriber is entered
init_telemetry_closure(t, c) ==
    /\ BeginCall(t, c, "scoped")
    /\ UNCHANGED << global_default, tracer_provider, propagator, error_handler, worker, guard,
                    released, thread_default, saved, installs_ok >>
    /\ UNCHANGED notLifeVars

\* how a call ends: its outcome and what the caller gets; the thread is idle again
EndCall(t, how, r) ==
    /\ pc' = [pc EXCEPT ![t] = "idle"]
    /\ outcome' = [outcome EXCEPT ![t] = how]
    /\ ret' = [ret EXCEPT ![t] = r]

\* Drop of a WorkerGuard (tracing_appender::non_blocking::WorkerGuard): flushes
\* and stops the pipeline's file-writer worker
DropGuard(p) ==
    /\ released' = [released EXCEPT ![p] = @ + 1]
    /\ guard' = [guard EXCEPT ![p] = "dropped"]
    /\ worker' = [worker EXCEPT ![p] = "stopped"]

\* get_dozer_tracer, lines 125-151: builds the provider and, line 150,
\* global::set_tracer_provider(tracer_provider) whatever the entry point
get_dozer_tracer(t) ==
    /\ tracer_provider' = pid[t]
    /\ pc' = [pc EXCEPT ![t] = "appender"]
    /\ UNCHANGED << propagator, outcome, ret >>

\* get_jaeger_tracer, line 109: global::set_text_map_propagator, before the
\* agent pipeline is installed
get_jaeger_tracer(t) ==
    /\ propagator' = pid[t]
    /\ pc' = [pc EXCEPT ![t] = "jaeger_install"]
    /\ UNCHANGED << tracer_provider, outcome, ret >>

\* create_subscriber, lines 67-82: the match on the trace configuration, which
\* consumes telemetry_config
create_subscriber_layers(t) ==
    /\ pc[t] = "layers"
    /\ cfg' = [cfg EXCEPT ![t] = "absent"]
    /\ CASE cfg[t] = "dozer" -> get_dozer_tracer(t)
         [] cfg[t] = "jaeger" -> get_jaeger_tracer(t)
         [] OTHER -> /\ pc' = [pc EXCEPT ![t] = "appender"]
                     /\ UNCHANGED << tracer_provider, propagator, outcome, ret >>
    /\ UNCHANGED << global_default, error_handler, worker, guard, released, mode, next_id,
                    pid, thread_default, saved, work_result, prior_dest, prior_global,
                    last_event, installs_ok >>
    /\ UNCHANGED notLifeVars

\* get_jaeger_tracer, lines 110-113: install_simple() registers the provider
\* globally when it succeeds; .expect(..) panics when it fails
jaeger_install_simple(t, ok) ==
    /\ pc[t] = "jaeger_install"
    /\ IF ok
       THEN /\ tracer_provider' = pid[t]
            /\ pc' = [pc EXCEPT ![t] = "appender"]
            /\ UNCHANGED << outcome, ret >>
       ELSE /\ EndCall(t, "panic_build", NoResult)
            /\ UNCHANGED tracer_provider
    /\ UNCHANGED << global_default, propagator, error_handler, worker, guard, released, mode,
                    next_id, cfg, pid, thread_default, saved, work_result, prior_dest,
                    prior_global, last_event, installs_ok >>
    /\ UNCHANGED notLifeVars

\* create_subscriber, lines 84-85: rolling::never panics when the log file
\* cannot be created; non_blocking starts the worker and yields the guard
create_subscriber_appender(t, ok) ==
    /\ pc[t] = "appender"
    /\ IF ok
       THEN /\ worker' = [worker EXCEPT ![pid[t]] = "running"]
            /\ guard' = [guard EXCEPT ![pid[t]] = "builder"]
            /\ pc' = [pc EXCEPT ![t] = "built"]
            /\ UNCHANGED << outcome, ret >>
       ELSE /\ EndCall(t, "panic_build", NoResult)
            /\ UNCHANGED << worker, guard >>
    /\ UNCHANGED << global_default, tracer_provider, propagator, error_handler, released, mode,
                    next_id, cfg, pid, thread_default, saved, work_result, prior_dest,
                    prior_global, last_event, installs_ok >>
    /\ UNCHANGED notLifeVars

\* subscriber_init with a plausible slip: the new subscriber replaces the
\* global default instead of being refused
subscriber_init_replaces(t) ==
    /\ pc[t] = "built"
    /\ mode[pid[t]] = "global"
    /\ global_default' = pid[t]
    /\ guard' = [guard EXCEPT ![pid[t]] = "caller"]
    /\ installs_ok' = installs_ok + 1
    /\ EndCall(t, "ok", [kind |-> "guard", val |-> pid[t]])
    /\ UNCHANGED << released, worker >>
    /\ UNCHANGED << tracer_provider, propagator, error_handler, mode, next_id, cfg, pid,
                    thread_default, saved, work_result, prior_dest, prior_global, last_event >>
    /\ UNCHANGED notLifeVars

\* init_telemetry, lines 31-33: subscriber.init() sets the global default
\* dispatcher and panics when one is already set (the guard, a local, is
\* dropped by the unwinding); otherwise the guard is returned
subscriber_init(t) ==
    /\ pc[t] = "built"
    /\ mode[pid[t]] = "global"
    /\ IF global_default = 0
       THEN /\ global_default' = pid[t]
            /\ guard' = [guard EXCEPT ![pid[t]] = "caller"]
            /\ installs_ok' = installs_ok + 1
            /\ EndCall(t, "ok", [kind |-> "guard", val |-> pid[t]])
            /\ UNCHANGED << released, worker >>
       ELSE /\ DropGuard(pid[t])
            /\ EndCall(t, "panic_init", NoResult)
            /\ UNCHANGED << global_default, installs_ok >>
    /\ UNCHANGED << tracer_provider, propagator, error_handler, mode, next_id, cfg, pid,
                    thread_default, saved, work_result, prior_dest, prior_global, last_event >>
    /\ UNCHANGED notLifeVars

\* with_default_enter with a plausible slip: the guard bound to `_` instead
\* of `_guard`, so it is dropped before the closure runs
with_default_enter_unbound_guard(t) ==
    /\ pc[t] = "built"
    /\ mode[pid[t]] = "scoped"
    /\ saved' = [saved EXCEPT ![t] = thread_default[t]]
    /\ thread_default' = [thread_default EXCEPT ![t] = pid[t]]
    /\ prior_dest' = [prior_dest EXCEPT ![t] = Dispatch(t)]
    /\ prior_global' = [prior_global EXCEPT ![t] = global_default]
    /\ pc' = [pc EXCEPT ![t] = "work"]
    /\ DropGuard(pid[t])
    /\ UNCHANGED << global_default, tracer_provider, propagator, error_handler,
                    mode, next_id, cfg, pid, work_result, outcome, ret, last_event,
                    installs_ok >>
    /\ UNCHANGED notLifeVars

\* init_telemetry_closure, line 49: with_default(subscriber, closure) makes
\* the subscriber the thread's default and keeps the prior one; the guard
\* stays bound to _guard
with_default_enter(t) ==
    /\ pc[t] = "built"
    /\ mode[pid[t]] = "scoped"
    /\ saved' = [saved EXCEPT ![t] = thread_default[t]]
    /\ thread_default' = [thread_default EXCEPT ![t] = pid[t]]
    /\ prior_dest' = [prior_dest EXCEPT ![t] = Dispatch(t)]
    /\ prior_global' = [prior_global EXCEPT ![t] = global_default]
    /\ pc' = [pc EXCEPT ![t] = "work"]
    /\ UNCHANGED << global_default, tracer_provider, propagator, error_handler, worker, guard,
                    released, mode, next_id, cfg, pid, work_result, outcome, ret, last_event,
                    installs_ok >>
    /\ UNCHANGED notLifeVars

\* with_default_exit with a plausible slip: the prior default is put back
\* only when the closure returns, not when it panics
with_default_exit_no_restore_on_panic(t, r) ==
    /\ pc[t] = "work"
    /\ work_result' = [work_result EXCEPT ![t] = r]
    /\ thread_default' = [thread_default EXCEPT ![t] =
                             IF r.kind = "panic" THEN @ ELSE saved[t]]
    /\ pc' = [pc EXCEPT ![t] = "exit"]
    /\ UNCHANGED << global_default, tracer_provider, propagator, error_handler, worker, guard,
                    released, mode, next_id, cfg, pid, saved, outcome, ret, prior_dest,
                    prior_global, last_event, installs_ok >>
    /\ UNCHANGED notLifeVars

\* with_default, line 49: the closure ends (returns or panics); the
\* DefaultGuard's drop puts the prior thread default back in both cases
with_default_exit(t, r) ==
    /\ pc[t] = "work"
    /\ work_result' = [work_result EXCEPT ![t] = r]
    /\ thread_default' = [thread_default EXCEPT ![t] = saved[t]]
    /\ pc' = [pc EXCEPT ![t] = "exit"]
    /\ UNCHANGED << global_default, tracer_provider, propagator, error_handler, worker, guard,
                    released, mode, next_id, cfg, pid, saved, outcome, ret, prior_dest,
                    prior_global, last_event, installs_ok >>
    /\ UNCHANGED notLifeVars

\* init_telemetry_closure, line 50: end of the function body, _guard goes
\* out of scope (also when a panic unwinds); the closure's value is returned
\* or its panic goes on to the caller
closure_return(t) ==
    /\ pc[t] = "exit"
    /\ DropGuard(pid[t])
    /\ EndCall(t, IF work_result[t].kind = "panic" THEN "panic_work" ELSE "ok", work_result[t])
    /\ UNCHANGED << global_default, tracer_provider, propagator, error_handler, mode, next_id,
                    cfg, pid, thread_default, saved, work_result, prior_dest, prior_global,
                    last_event, installs_ok >>
    /\ UNCHANGED notLifeVars

\* shutdown_telemetry, lines 37-39: global::shutdown_tracer_provider() puts
\* the no-op provider back
shutdown_telemetry(t) ==
    /\ pc[t] = "idle"
    /\ tracer_provider # 0
    /\ tracer_provider' = 0
    /\ UNCHANGED << global_default, propagator, error_handler, worker, guard, released, mode,
                    next_id, pc, cfg, pid, thread_default, saved, work_result, outcome, ret,
                    prior_dest, prior_global, last_event, installs_ok >>
    /\ UNCHANGED notLifeVars

\* the caller of init_telemetry lets go of the WorkerGuard it was given
caller_drops_guard(t) ==
    /\ pc[t] = "idle"
    /\ outcome[t] = "ok"
    /\ ret[t].kind = "guard"
    /\ guard[ret[t].val] = "caller"
    /\ DropGuard(ret[t].val)
    /\ UNCHANGED << global_default, tracer_provider, propagator, error_handler, mode, next_id,
                    pc, cfg, pid, thread_default, saved, work_result, outcome, ret,
                    prior_dest, prior_global, last_event, installs_ok >>
    /\ UNCHANGED notLifeVars

\* a thread emits a log or trace event: outside any call of this module, or
\* inside the closure running under with_default
emit_event(t) ==
    /\ pc[t] \in {"idle", "work"}
    /\ last_event' = [last_event EXCEPT ![t] =
            [during |-> IF pc[t] = "work" THEN pid[t] ELSE 0,
             dest |-> Dispatch(t), gd |-> global_default, seen |-> TRUE]]
    /\ UNCHANGED << global_default, tracer_provider, propagator, error_handler, worker, guard,
                    released, mode, next_id, pc, cfg, pid, thread_default, saved, work_result,
                    outcome, ret, prior_dest, prior_global, installs_ok >>
    /\ UNCHANGED notLifeVars

(***************************************************************************)
(* create_subscriber's filters and layers, lines 58-96.                    *)
(***************************************************************************)

\* an environment variable that is not set
Unset == "<unset>"

\* the filter strings an environment variable is given in this model; the
\* last two are not filter directives
FilterStrings == {"info", "debug", "warn", "dozer=trace", "dozer=warn", "warn,dozer=debug",
                  "dozer=loud", "a=b=c"}

EnvStates == {Unset} \cup FilterStrings

\* tracing levels, from the least verbose (ERROR) to the most (TRACE)
Level == [ERROR |-> 1, WARN |-> 2, INFO |-> 3, DEBUG |-> 4, TRACE |-> 5]

Levels == Level.ERROR .. Level.TRACE

\* the targets of the events of the model: the dozer crates and anything else
Targets == {"dozer", "other"}

Events == [target : Targets, level : Levels]

\* no event emitted yet
NoEmitted == [target |-> "none", level |-> 0]

NoFilter == [ok |-> FALSE, dirs |-> {}]

\* a directive with target "" applies to every target
Dir(tg, lv) == [target |-> tg, level |-> lv]

\* EnvFilter::try_new(s): the directives of a filter string, or an error when
\* a directive does not parse
try_new(str) ==
    CASE str = "info" -> [ok |-> TRUE, dirs |-> {Dir("", Level.INFO)}]
      [] str = "debug" -> [ok |-> TRUE, dirs |-> {Dir("", Level.DEBUG)}]
      [] str = "warn" -> [ok |-> TRUE, dirs |-> {Dir("", Level.WARN)}]
      [] str = "dozer=trace" -> [ok |-> TRUE, dirs |-> {Dir("dozer", Level.TRACE)}]
      [] str = "dozer=warn" -> [ok |-> TRUE, dirs |-> {Dir("dozer", Level.WARN)}]
      [] str = "warn,dozer=debug" -> [ok |-> TRUE, dirs |-> {Dir("", Level.WARN), Dir("dozer", Level.DEBUG)}]
      [] OTHER -> NoFilter

\* EnvFilter::try_from_env(name) / try_from_default_env(): an error when the
\* variable is not set or its value does not parse
try_from_env(value) == IF value = Unset THEN NoFilter ELSE try_new(value)

\* the fallback of lines 59-61, 63-65 and 68-70 with the unwrap left out: a
\* plausible slip that takes the override as it is
or_else_missing(value, default) == try_from_env(value)

\* lines 59-61, 63-65, 68-70: try_from_env(..).or_else(|_| EnvFilter::try_new(default));
\* the caller unwraps the result
or_else_default(value, default) ==
    IF try_from_env(value).ok THEN try_from_env(value) ELSE try_new(default)

\* EnvFilter as a per-layer filter: the directive with the most specific
\* matching target decides; an event no directive matches is not enabled
Matching(dirs, ev) == {d \in dirs : d.target = "" \/ d.target = ev.target}

Enabled(filter, ev) ==
    LET m == Matching(filter.dirs, ev)
        specific == {d \in m : d.target # ""}
    IN  IF m = {} THEN FALSE
        ELSE IF specific # {} THEN \E d \in specific : ev.level <= d.level
        ELSE \E d \in m : ev.level <= d.level

\* lines 67-82 and 87-96: the registry's layers in the order they are added,
\* each with the filter given to its with_filter; the trace layer is there
\* only for a Dozer or a Jaeger trace configuration
Layers(c, ff, lf, tf) ==
    << [sink |-> "console", filter |-> ff], [sink |-> "file", filter |-> lf] >>
    \o (IF c \in {"dozer", "jaeger"} THEN << [sink |-> "trace", filter |-> tf] >> ELSE << >>)

\* filters shared by the whole stack instead of one per layer: a plausible
\* slip (.with(filter) in place of .with_filter(filter))
DeliverIfAllEnabled(layers, ev) ==
    IF \A i \in DOMAIN layers : Enabled(layers[i].filter, ev)
    THEN {layers[i].sink : i \in DOMAIN layers} ELSE {}

\* lines 88-96, Layer::with_filter: a layer gets the event when its own
\* filter enables it
Deliver(layers, ev) ==
    {layers[i].sink : i \in {j \in DOMAIN layers : Enabled(layers[j].filter, ev)}}

FilterIdle ==
    /\ f_pc = "start"
    /\ fmt_filter = NoFilter
    /\ log_writer_filter = NoFilter
    /\ trace_filter = NoFilter
    /\ f_event = NoEmitted
    /\ f_delivered = {}

\* the filter part at rest, for the specifications that are not about it
FilterParked ==
    /\ env_rust_log = Unset
    /\ env_trace_filter = Unset
    /\ f_cfg = "absent"
    /\ FilterIdle

\* a process starts with some environment and some telemetry_config
FilterInit ==
    /\ env_rust_log \in EnvStates
    /\ env_trace_filter \in EnvStates
    /\ f_cfg \in TelemetryConfigs
    /\ FilterIdle

\* create_subscriber, lines 58-98: the three filters are resolved (the trace
\* filter only inside map_or, when a telemetry_config is given); an unwrap
\* of an error panics
create_subscriber_filters ==
    /\ f_pc = "start"
    /\ LET ff == or_else_default(env_rust_log, "info")
           lf == or_else_default(env_rust_log, "info")
           tf == IF f_cfg = "absent" THEN NoFilter
                 ELSE or_else_default(env_trace_filter, "dozer=trace")
       IN  IF ff.ok /\ lf.ok /\ (f_cfg # "absent" => tf.ok)
           THEN /\ fmt_filter' = ff
                /\ log_writer_filter' = lf
                /\ trace_filter' = tf
                /\ f_pc' = "built"
           ELSE /\ f_pc' = "panicked"
                /\ UNCHANGED << fmt_filter, log_writer_filter, trace_filter >>
    /\ UNCHANGED << env_rust_log, env_trace_filter, f_cfg, f_event, f_delivered >>
    /\ UNCHANGED << lifeVars, samplerVars, dbVars >>

\* an event is emitted while the subscriber is the destination
filter_emit(ev) ==
    /\ f_pc = "built"
    /\ f_event' = ev
    /\ f_delivered' = Deliver(Layers(f_cfg, fmt_filter, log_writer_filter, trace_filter), ev)
    /\ UNCHANGED << env_rust_log, env_trace_filter, f_cfg, f_pc, fmt_filter, log_writer_filter,
                    trace_filter >>
    /\ UNCHANGED << lifeVars, samplerVars, dbVars >>

FilterNext ==
    \/ create_subscriber_filters
    \/ \E ev \in Events : filter_emit(ev)


\* the filter of a built subscriber that an override alone decides: the
\* parsed override, or the given directives when it is unset or malformed
ExpectedFilter(value, default_dirs) ==
    IF value # Unset /\ try_new(value).ok THEN try_new(value)
    ELSE [ok |-> TRUE, dirs |-> default_dirs]

\* C7: building never panics on a filter; each filter is the parsed override
\* when the override is set and parses, else the default: "info" for the
\* console and the file layer, "dozer=trace" for the trace layer.
C7_FilterResolutionNeverFails ==
    /\ f_pc # "panicked"
    /\ f_pc = "built"
          => /\ fmt_filter = ExpectedFilter(env_rust_log, {Dir("", Level.INFO)})
             /\ log_writer_filter = ExpectedFilter(env_rust_log, {Dir("", Level.INFO)})
             /\ f_cfg # "absent"
                   => trace_filter = ExpectedFilter(env_trace_filter, {Dir("dozer", Level.TRACE)})

\* C7 witness: built with both overrides malformed, on the defaults
C7_Witness ==
    /\ f_pc = "built"
    /\ f_cfg = "dozer"
    /\ env_rust_log = "dozer=loud"
    /\ env_trace_filter = "a=b=c"
    /\ fmt_filter.dirs = {Dir("", Level.INFO)}
    /\ trace_filter.dirs = {Dir("dozer", Level.TRACE)}

\* C8: an event reaches the trace layer only when the trace filter enables
\* it; it reaches the console (file) layer exactly when the console (file)
\* filter enables it, and so the same event reaches the same console and file
\* layers whatever DOZER_TRACE_FILTER is set to.
C8_FiltersIndependentPerSink ==
    (f_pc = "built" /\ f_event # NoEmitted)
        => /\ ("trace" \in f_delivered)
                = (f_cfg \in {"dozer", "jaeger"} /\ Enabled(trace_filter, f_event))
           /\ ("console" \in f_delivered) = Enabled(fmt_filter, f_event)
           /\ ("file" \in f_delivered) = Enabled(log_writer_filter, f_event)
           /\ \A other \in EnvStates :
                 Deliver(Layers(f_cfg, fmt_filter, log_writer_filter,
                                or_else_default(other, "dozer=trace")), f_event)
                    \cap {"console", "file"}
                 = f_delivered \cap {"console", "file"}

\* C8 witness: an event the trace filter stops and the console and file
\* filters let through, with a trace layer in the pipeline
C8_Witness ==
    /\ f_pc = "built"
    /\ f_cfg = "jaeger"
    /\ f_delivered = {"console", "file"}
    /\ f_event.target = "other"
    /\ ~ Enabled(trace_filter, f_event)

(***************************************************************************)
(* get_dozer_tracer's sampler, lines 126 and 131.                          *)
(***************************************************************************)

\* the largest sample_percent a configuration is given in this model
MaxPercent == 110

\* trace ids are 0 .. IdSpace - 1; the SDK compares 63 bits of the trace id
\* with ratio * 2^63, the model compares the id with ratio * IdSpace
IdSpace == 20

SamplePercents == 0..MaxPercent

TraceIds == 0..(IdSpace - 1)

\* the parent of a new span: none (a trace root), or a parent that was or was
\* not sampled
Parents == {"root", "sampled", "unsampled"}

NoSampler == [num |-> 0, den |-> 0]

NoDecision == [trace_id |-> 0, parent |-> "none", sampled |-> FALSE]

\* Sampler::TraceIdRatioBased(prob): always when prob >= 1.0, else when the
\* id is below prob * IdSpace
TraceIdRatioBased(ratio, trace_id) ==
    IF ratio.num >= ratio.den THEN TRUE
    ELSE trace_id * ratio.den < ratio.num * IdSpace

\* line 131, Sampler::ParentBased(Box::new(Sampler::TraceIdRatioBased(..))):
\* a span with a parent takes the parent's decision, a root the ratio's
should_sample(ratio, parent, trace_id) ==
    CASE parent = "sampled" -> TRUE
      [] parent = "unsampled" -> FALSE
      [] OTHER -> TraceIdRatioBased(ratio, trace_id)

SamplerParked ==
    /\ sample_percent = 0
    /\ s_pc = "start"
    /\ sampler = NoSampler
    /\ s_decision = NoDecision

SamplerInit ==
    /\ sample_percent \in SamplePercents
    /\ s_pc = "start"
    /\ sampler = NoSampler
    /\ s_decision = NoDecision

\* get_dozer_tracer, lines 126 and 131: sample_percent as f64 / 100.0 goes
\* into the sampler as it is
get_dozer_tracer_sampler ==
    /\ s_pc = "start"
    /\ sampler' = [num |-> sample_percent, den |-> 100]
    /\ s_pc' = "built"
    /\ UNCHANGED << sample_percent, s_decision >>
    /\ UNCHANGED << lifeVars, filterVars, dbVars >>

\* a span starts under the built sampler
sample_span(parent, trace_id) ==
    /\ s_pc = "built"
    /\ s_decision' = [trace_id |-> trace_id, parent |-> parent,
                      sampled |-> should_sample(sampler, parent, trace_id)]
    /\ UNCHANGED << sample_percent, s_pc, sampler >>
    /\ UNCHANGED << lifeVars, filterVars, dbVars >>

SamplerNext ==
    \/ get_dozer_tracer_sampler
    \/ \E parent \in Parents, trace_id \in TraceIds : sample_span(parent, trace_id)


\* C3: a sample percentage above 100 is refused when the tracer is built (no
\* sampler comes out of it); one in 0..100 gives the ratio p/100, with no
\* trace root sampled at 0 and every trace root sampled at 100.
C3_OutOfRangePercentRejected ==
    s_pc # "start"
        => IF sample_percent \notin 0..100
           THEN s_pc = "error" /\ sampler = NoSampler
           ELSE /\ s_pc = "built"
                /\ sampler = [num |-> sample_percent, den |-> 100]
                /\ (s_decision.parent = "root" /\ sample_percent = 0) => ~ s_decision.sampled
                /\ (s_decision.parent = "root" /\ sample_percent = 100) => s_decision.sampled

(***************************************************************************)
(* ConnectionInfo persistence, dozer-admin/src/db/connection.rs.           *)
(***************************************************************************)

\* Option<String> ids: None, ids a caller gives, ids uuid::Uuid::new_v4 makes
None == "None"

GivenIds == {"id-1"}

GenIds == {"uuid-1", "uuid-2"}

DbIds == GivenIds \cup GenIds

Names == {"pg", "sf"}

\* r#type: i32; 0, 1, 2 are ConnectionType's variants, 3 is none of them
TypeValues == {2, 3}

\* Option<Authentication>
Auths == {"None", "Some"}

ConnectionInfos == [id : {None} \cup GivenIds, name : Names, type : TypeValues, auth : Auths]

NoRow == [id |-> None, auth |-> "", name |-> "", db_type |-> ""]

Ok(v) == [ok |-> TRUE, err |-> "", val |-> v]

Err(e) == [ok |-> FALSE, err |-> e, val |-> NoRow]

\* TryFrom<i32> for ConnectionType, lines 45-55
ConnectionType_try_from_i32(item) ==
    CASE item = 0 -> Ok("Postgres")
      [] item = 1 -> Ok("Snowflake")
      [] item = 2 -> Ok("Databricks")
      [] OTHER -> Err("ConnectionType enum not match")

\* str::to_lowercase, line 59, on the names as_str_name gives
to_lowercase(str) ==
    CASE str = "Postgres" -> "postgres"
      [] str = "Snowflake" -> "snowflake"
      [] str = "Databricks" -> "databricks"
      [] OTHER -> str

\* TryFrom<String> for ConnectionType, lines 56-66
ConnectionType_try_from_string(item) ==
    CASE to_lowercase(item) = "postgres" -> Ok("Postgres")
      [] to_lowercase(item) = "snowflake" -> Ok("Snowflake")
      [] to_lowercase(item) = "databricks" -> Ok("Databricks")
      [] OTHER -> Err("String not match ConnectionType")

\* serde_json::to_string(&item.authentication), line 70
auth_to_string(auth) == IF auth = "None" THEN "null" ELSE "{authentication}"

\* serde_json::from_str(&item.auth), line 35: "null" is no Authentication
auth_from_str(str) ==
    IF str = "{authentication}" THEN Ok("Some") ELSE Err("invalid type: null")

\* TryFrom<ConnectionInfo> for NewConnection, lines 67-82: the given id, or
\* the generated one when there is none
NewConnection_try_from(item, generated_id) ==
    LET connection_type == ConnectionType_try_from_i32(item.type)
    IN  IF ~ connection_type.ok THEN Err(connection_type.err)
        ELSE Ok([auth |-> auth_to_string(item.auth),
                 name |-> item.name,
                 db_type |-> connection_type.val,
                 id |-> IF item.id # None THEN item.id ELSE generated_id])

\* insert_into(connections).values(..).on_conflict(id).do_update().set(..)
\* .execute(&mut db), lines 87-92 and 138-143: the row of that id becomes the
\* new row when the statement succeeds; nothing changes when it fails
insert_on_conflict_update(table, row, write_ok) ==
    IF write_ok THEN [table EXCEPT ![row.id] = row] ELSE table

\* save with the result of execute propagated by `?`: a plausible slip
save_propagating_write_error(this, table, generated_id, pool_ok, write_ok) ==
    LET new_connection == NewConnection_try_from(this, generated_id)
    IN  IF ~ new_connection.ok
        THEN [res |-> Err(new_connection.err), self |-> this, table |-> table]
        ELSE IF ~ pool_ok
        THEN [res |-> Err("pool"), self |-> this, table |-> table]
        ELSE IF ~ write_ok
        THEN [res |-> Err("execute"), self |-> this, table |-> table]
        ELSE [res |-> Ok(NoRow),
              self |-> [this EXCEPT !.id = new_connection.val.id],
              table |-> insert_on_conflict_update(table, new_connection.val, write_ok)]

\* Persistable::save, lines 84-95: the conversion and pool.get() fail with
\* `?`; the result of execute goes to _inserted and is not looked at
save(this, table, generated_id, pool_ok, write_ok) ==
    LET new_connection == NewConnection_try_from(this, generated_id)
    IN  IF ~ new_connection.ok
        THEN [res |-> Err(new_connection.err), self |-> this, table |-> table]
        ELSE IF ~ pool_ok
        THEN [res |-> Err("pool"), self |-> this, table |-> table]
        ELSE [res |-> Ok(NoRow),
              self |-> [this EXCEPT !.id = new_connection.val.id],
              table |-> insert_on_conflict_update(table, new_connection.val, write_ok)]

\* Persistable::upsert, lines 135-146
upsert(this, table, generated_id, pool_ok, write_ok) ==
    LET new_connection == NewConnection_try_from(this, generated_id)
        db == pool_ok
    IN  CASE ~ new_connection.ok ->
                [res |-> Err(new_connection.err), self |-> this, table |-> table]
          [] new_connection.ok /\ ~ db ->
                [res |-> Err("pool"), self |-> this, table |-> table]
          [] OTHER ->
                [res |-> Ok(NoRow),
                 self |-> [this EXCEPT !.id = new_connection.val.id],
                 table |-> insert_on_conflict_update(table, new_connection.val, write_ok)]

\* TryFrom<DbConnection> for ConnectionInfo, lines 31-44
ConnectionInfo_try_from(item) ==
    LET db_type_value == ConnectionType_try_from_string(item.db_type)
        auth_value == auth_from_str(item.auth)
    IN  IF ~ db_type_value.ok THEN Err(db_type_value.err)
        ELSE IF ~ auth_value.ok THEN Err(auth_value.err)
        ELSE Ok(item)

\* Persistable::get_by_id, lines 97-102: connections.find(input_id).first(..)
\* is an error when there is no such row
get_by_id(table, input_id, pool_ok) ==
    IF ~ pool_ok THEN Err("pool")
    ELSE IF input_id \notin DbIds \/ table[input_id] = NoRow THEN Err("NotFound")
    ELSE ConnectionInfo_try_from(table[input_id])

NoInputs == [id |-> None, generated_id |-> None, pool_ok |-> FALSE, write_ok |-> FALSE]

NoSelf == [id |-> None, name |-> "pg", type |-> 0, auth |-> "None"]

DbParked ==
    /\ connections = [i \in DbIds |-> NoRow]
    /\ self = NoSelf
    /\ d_op = "none"
    /\ d_res = Err("")
    /\ d_in = NoInputs
    /\ d_get = Err("")

DbInit == DbParked

\* uuid::Uuid::new_v4(), line 73: an id no row and no caller has
FreshIds == {g \in GenIds : connections[g] = NoRow}

\* a caller saves a ConnectionInfo
call_save(this, generated_id, pool_ok, write_ok) ==
    /\ generated_id \in FreshIds
    /\ LET r == save(this, connections, generated_id, pool_ok, write_ok)
       IN  /\ connections' = r.table
           /\ self' = r.self
           /\ d_res' = r.res
    /\ d_op' = "save"
    /\ d_in' = [id |-> this.id, generated_id |-> generated_id, pool_ok |-> pool_ok,
                write_ok |-> write_ok]
    /\ d_get' = Err("")
    /\ UNCHANGED << lifeVars, filterVars, samplerVars >>

\* a caller upserts a ConnectionInfo
call_upsert(this, generated_id, pool_ok, write_ok) ==
    /\ generated_id \in FreshIds
    /\ LET r == upsert(this, connections, generated_id, pool_ok, write_ok)
       IN  /\ connections' = r.table
           /\ self' = r.self
           /\ d_res' = r.res
    /\ d_op' = "upsert"
    /\ d_in' = [id |-> this.id, generated_id |-> generated_id, pool_ok |-> pool_ok,
                write_ok |-> write_ok]
    /\ d_get' = Err("")
    /\ UNCHANGED << lifeVars, filterVars, samplerVars >>

\* the caller looks up the id the call left in self
call_get_by_id(pool_ok) ==
    /\ d_op # "none"
    /\ d_res.ok
    /\ d_get' = get_by_id(connections, self.id, pool_ok)
    /\ UNCHANGED << connections, self, d_op, d_res, d_in >>
    /\ UNCHANGED << lifeVars, filterVars, samplerVars >>

DbNext ==
    \/ \E this \in ConnectionInfos, g \in GenIds, pool_ok \in BOOLEAN, write_ok \in BOOLEAN :
            call_save(this, g, pool_ok, write_ok)
    \/ \E this \in ConnectionInfos, g \in GenIds, pool_ok \in BOOLEAN, write_ok \in BOOLEAN :
            call_upsert(this, g, pool_ok, write_ok)
    \/ \E pool_ok \in BOOLEAN : call_get_by_id(pool_ok)

\* C10: save and upsert do the same thing to the same inputs; once the
\* conversion and pool.get() have succeeded the call is Ok and self.id is the
\* given id, or the generated one when none was given, whether or not the
\* write succeeded (and only a failed conversion or pool.get() is an error).
C10_SaveUpsertOkWhateverTheWrite ==
    /\ \A this \in ConnectionInfos, g \in FreshIds, pool_ok \in BOOLEAN, write_ok \in BOOLEAN :
          save(this, connections, g, pool_ok, write_ok)
             = upsert(this, connections, g, pool_ok, write_ok)
    /\ d_op # "none"
          => /\ d_res.ok = (ConnectionType_try_from_i32(self.type).ok /\ d_in.pool_ok)
             /\ d_res.ok => self.id = (IF d_in.id # None THEN d_in.id ELSE d_in.generated_id)
             /\ ~ d_res.ok => self.id = d_in.id
             /\ (d_res.ok /\ ~ d_in.write_ok /\ d_in.id = None)
                   => connections[self.id] = NoRow

\* C10 witness: a save that returned Ok with a generated id although its
\* write failed, and get_by_id on that id finds nothing
C10_Witness ==
    /\ d_op = "save"
    /\ d_res.ok
    /\ ~ d_in.write_ok
    /\ d_in.id = None
    /\ self.id = d_in.generated_id
    /\ d_get = Err("NotFound")

(***************************************************************************)
(* Specifications: the lifecycle (Spec), the filters (FilterSpec), the     *)
(* sampler (SamplerSpec), the persistence of ConnectionInfo (DbSpec).      *)
(***************************************************************************)

Init == LifeInit /\ FilterParked /\ SamplerParked /\ DbParked

Next ==
    \/ \E t \in Threads, c \in TelemetryConfigs : init_telemetry(t, c)
    \/ \E t \in Threads, c \in TelemetryConfigs : init_telemetry_closure(t, c)
    \/ \E t \in Threads : create_subscriber_layers(t)
    \/ \E t \in Threads, ok \in BOOLEAN : jaeger_install_simple(t, ok)
    \/ \E t \in Threads, ok \in BOOLEAN : create_subscriber_appender(t, ok)
    \/ \E t \in Threads : subscriber_init(t)
    \/ \E t \in Threads : with_default_enter(t)
    \/ \E t \in Threads, r \in WorkOutcomes : with_default_exit(t, r)
    \/ \E t \in Threads : closure_return(t)
    \/ \E t \in Threads : shutdown_telemetry(t)
    \/ \E t \in Threads : caller_drops_guard(t)
    \/ \E t \in Threads : emit_event(t)

Spec == Init /\ [][Next]_vars

FilterSpecInit == LifeInit /\ FilterInit /\ SamplerParked /\ DbParked

FilterSpec == FilterSpecInit /\ [][FilterNext]_vars

SamplerSpecInit == LifeInit /\ FilterParked /\ SamplerInit /\ DbParked

SamplerSpec == SamplerSpecInit /\ [][SamplerNext]_vars

DbSpecInit == LifeInit /\ FilterParked /\ SamplerParked /\ DbInit

DbSpec == DbSpecInit /\ [][DbNext]_vars

(***************************************************************************)
(* Claims about the lifecycle (checked under Spec).                        *)
(***************************************************************************)

\* a thread whose last call was a scoped install that ran its closure and came back
ScopedDone(t) ==
    /\ pc[t] = "idle"
    /\ pid[t] # 0
    /\ mode[pid[t]] = "scoped"
    /\ outcome[t] \in {"ok", "panic_work"}

\* C1: the process-wide trace provider is only ever one registered by a
\* pipeline that global install built; a scoped install leaves the
\* registration as it found it.
C1_ScopedInstallLeavesTraceProvider ==
    tracer_provider # 0 => mode[tracer_provider] = "global"

\* C2: events emitted inside the closure go to the scoped pipeline and to
\* nothing else; when the closure has ended (by returning or by panicking) the
\* thread's default is the prior one again, so events emitted afterwards go
\* where they went before the call (the prior destination, as long as no global
\* install happened in between) and never to the scoped pipeline; the closure's
\* value is returned and its panic is passed on.
C2_ScopedRestoresPriorDestination ==
    \A t \in Threads :
        /\ (last_event[t].seen /\ last_event[t].during # 0)
              => last_event[t].dest = last_event[t].during
        /\ (last_event[t].seen /\ last_event[t].during = 0)
              => /\ last_event[t].dest = last_event[t].gd
                 /\ (last_event[t].dest # 0 => mode[last_event[t].dest] = "global")
        /\ ScopedDone(t)
              => /\ thread_default[t] = saved[t]
                 /\ Dispatch(t) # pid[t]
                 /\ (global_default = prior_global[t] => Dispatch(t) = prior_dest[t])
                 /\ ret[t] = work_result[t]
                 /\ (outcome[t] = "panic_work") = (work_result[t].kind = "panic")
                 /\ (outcome[t] = "ok") = (work_result[t].kind = "return")
                 /\ (last_event[t].seen /\ last_event[t].during = 0)
                       => /\ last_event[t].dest # pid[t]
                          /\ (last_event[t].gd = prior_global[t]
                                => last_event[t].dest = prior_dest[t])

\* C2 witness: a closure that panicked under a scoped pipeline while another
\* pipeline was installed globally, and an event emitted after it went to that
\* prior destination
C2_Witness ==
    \E t \in Threads :
        /\ ScopedDone(t)
        /\ outcome[t] = "panic_work"
        /\ prior_dest[t] # 0
        /\ last_event[t].seen
        /\ last_event[t].during = 0
        /\ last_event[t].dest = prior_dest[t]

\* C4: at most one init_telemetry call ever returns a guard; a later call
\* panics, gives its caller nothing, and the pipeline installed by the first
\* call stays the global destination.
C4_GlobalInstallAtMostOnce ==
    /\ installs_ok <= 1
    /\ (installs_ok = 1) = (global_default # 0)
    /\ \A p \in Pids : guard[p] = "caller" => (mode[p] = "global" /\ global_default = p)
    /\ \A t \in Threads :
          /\ (outcome[t] = "ok" /\ ret[t].kind = "guard") => global_default = ret[t].val
          /\ outcome[t] = "panic_init"
                => /\ ret[t] = NoResult
                   /\ guard[pid[t]] # "caller"
                   /\ global_default \notin {0, pid[t]}

\* C4 witness: a second global install was tried and panicked
C4_Witness ==
    \E t \in Threads : outcome[t] = "panic_init" /\ installs_ok = 1

\* C5: an install that failed while building its sinks left nothing of its
\* pipeline behind: not the event destination, no registered trace provider
\* or propagator, no running file-writer worker, and nothing was returned.
C5_FailedInstallLeavesNothing ==
    \A t \in Threads :
        outcome[t] = "panic_build"
            => /\ ret[t] = NoResult
               /\ global_default # pid[t]
               /\ tracer_provider # pid[t]
               /\ propagator # pid[t]
               /\ worker[pid[t]] # "running"
               /\ guard[pid[t]] \notin {"builder", "caller"}

\* C6: a built pipeline has one guard, dropped at most once; global install
\* hands it over undropped; scoped install keeps it, undropped and with the
\* worker running, for as long as the closure runs, and has dropped it exactly
\* once when it comes back, whether the closure returned or panicked.
C6_GuardReleasedExactlyOnce ==
    /\ \A p \in Pids :
          /\ released[p] <= 1
          /\ (released[p] = 1) = (guard[p] = "dropped")
          /\ (guard[p] \in {"builder", "caller"}) = (worker[p] = "running")
          /\ guard[p] = "caller" => mode[p] = "global"
    /\ \A t \in Threads :
          /\ pc[t] \in {"built", "work", "exit"}
                => (guard[pid[t]] = "builder" /\ released[pid[t]] = 0)
          /\ ScopedDone(t) => released[pid[t]] = 1
          /\ (outcome[t] = "ok" /\ ret[t].kind = "guard")
                => guard[ret[t].val] \in {"caller", "dropped"}

\* C6 witness: a scoped install whose closure panicked has come back with its
\* guard dropped once, and a global install's guard is still with its caller
C6_Witness ==
    /\ \E t \in Threads : ScopedDone(t) /\ outcome[t] = "panic_work" /\ released[pid[t]] = 1
    /\ \E p \in Pids : guard[p] = "caller" /\ released[p] = 0

====
